---- MODULE Spec2Model ----
(***************************************************************************)
(* Model of numba2/compiler/inference.py: the Cartesian Product Algorithm  *)
(* type inference.  infer() looks a (function, argtypes) key up in the     *)
(* cache, builds or reuses the function's constraint-graph template,       *)
(* copies and seeds a private context, runs the worklist solver            *)
(* infer_graph() (whose call nodes re-enter infer() through infer_call()), *)
(* and caches the signature.                                               *)
(*                                                                         *)
(* Python objects that are shared by reference (the binding dicts of the   *)
(* contexts) live in `heap`, keyed by an object identity, so that aliasing *)
(* between a template, a running specialization and a cached context is    *)
(* visible.  Nested infer() calls are frames of `stack`.                   *)
(***************************************************************************)
EXTENDS Integers, Sequences, FiniteSets, TLC

\* ------------------------------------------------------------------ bounds

\* Deepest nesting of in-progress infer() calls that is explored.
MaxDepth == 2
\* build_graph() calls counted per function.
MaxBuilds == 2
\* Node visits counted per solver run.
MaxVisits == 48

\* ----------------------------------------------------------------- helpers

Range(s) == {s[i] : i \in 1..Len(s)}

Min(a, b) == IF a < b THEN a ELSE b

\* A Python dict is a function; d[k] = v adds or replaces one key.
EmptyDict == [k \in {} |-> {}]

Put(d, k, v) == [x \in (DOMAIN d) \cup {k} |-> IF x = k THEN v ELSE d[x]]

Drop(d, ks) == [x \in (DOMAIN d) \ ks |-> d[x]]

\* Every order in which the elements of a set may be iterated.
RECURSIVE Perms(_)
Perms(S) ==
    IF S = {} THEN {<<>>}
    ELSE UNION {{<<x>> \o p : p \in Perms(S \ {x})} : x \in S}

\* ------------------------------------------------------------------- types

\* Type(name, *params): a type constructor applied to its parameters.
Type(name, params) == [name |-> name, params |-> params]

Int32 == Type("Int32", <<>>)

Bool == Type("Bool", <<>>)

Void == Type("Void", <<>>)

\* Function(restype, *argtypes): params[1] is the return type.
Function(restype, argtypes) == Type("Function", <<restype>> \o argtypes)

Pointer(t) == Type("Pointer", <<t>>)

\* A function object held as the first parameter of a Method type.
FuncObj(fn) == Type(fn, <<>>)

\* Method(func, self): a function bound to the type of its receiver.
Method(fn, self) == Type("Method", <<FuncObj(fn), self>>)

\* frozenset(candidates): the overloads a callee may stand for.  A frozenset
\* is no Type and has neither .name nor .params; the record keeps the shape
\* of the other values and IsFrozenset tells it apart.
Overloaded(candidates) == [name |-> "frozenset", params |-> candidates]

\* isinstance(func_type, frozenset)
IsFrozenset(t) == t.name = "frozenset"

\* Two struct types of the program under inference.
Point == Type("Point", <<>>)

Point3 == Type("Point3", <<>>)

\* type.fields: attribute name -> (value, result type); a type without
\* fields has the empty dict.
fields(t) ==
    CASE t = Point ->
           [n \in {"x", "y"} |-> [value |-> n, result |-> Int32]]
      [] t = Point3 ->
           [n \in {"x", "y", "q"} |-> [value |-> n, result |-> IF n = "q" THEN Bool ELSE Int32]]
      [] OTHER -> EmptyDict

\* typeof(arg.const): the type of a constant.
typeof(c) == Int32

\* The Type a type-literal graph node stands for (Bool(), Void()).
TypeLiterals == [n \in {"Bool()", "Void()"} |-> IF n = "Bool()" THEN Bool ELSE Void]

\* isinstance(node, Type)
IsTypeNode(node) == node \in DOMAIN TypeLiterals

\* ---------------------------------------------------------------------- IR

\* An IR operation: its identity (the graph node), its opcode and its value
\* operands, flattened.  call: <<callee, arg1, ..>>; phi: the incoming
\* values; ret: <<value>>, or <<"None">> for a bare return.
Op(id, opcode, args) == [id |-> id, opcode |-> opcode, args |-> args]

\* The functions under inference:
\*   f(a, b)      = return a
\*   ap(m)        = return m(m)
\*   loop(a, b)   = r = phi(a, b, r); return r
\*   branch(a, b) = return phi(a, b)
\*   ap2(m)       = p = phi(m); return p(m)
\*   getq(p, r)   = return phi(p, r).q
\*   noret(a)     = phi(a), no return
\*   simple(a, b) = return 1
\*   ptr(a)       = v = alloca; store a, v; return v
\*   slots(a)     = v = alloca; w = alloca; load w; store a, w
\*   bare()       = return
\*   cb(c)        = cbranch c
\*   cmp(g, a)    = cbranch g(a)
FuncNames ==
    {"f", "ap", "loop", "branch", "ap2", "getq", "noret", "simple", "ptr", "slots",
     "bare", "cb", "cmp"}

\* The programs a session compiles: each a set of functions that only call
\* one another.
Programs ==
    {{"f", "ap"}, {"f", "ap2"}, {"loop", "branch"}, {"getq"}, {"noret", "simple"}, {"ptr"},
     {"slots"}, {"bare", "cb"}, {"cmp"}}

\* func.args
FuncArgs(fn) ==
    CASE fn = "f" -> <<"a", "b">>
      [] fn = "ap" -> <<"m">>
      [] fn = "loop" -> <<"a", "b">>
      [] fn = "branch" -> <<"a", "b">>
      [] fn = "ap2" -> <<"m">>
      [] fn = "getq" -> <<"p", "r">>
      [] fn = "noret" -> <<"a">>
      [] fn = "simple" -> <<"a", "b">>
      [] fn = "ptr" -> <<"a">>
      [] fn = "slots" -> <<"a">>
      [] fn = "bare" -> <<>>
      [] fn = "cb" -> <<"c">>
      [] fn = "cmp" -> <<"g", "a">>

\* func.ops
FuncOps(fn) ==
    CASE fn = "f" -> <<Op("ret_f", "ret", <<"a">>)>>
      [] fn = "ap" -> <<Op("call_ap", "call", <<"m", "m">>),
                        Op("ret_ap", "ret", <<"call_ap">>)>>
      [] fn = "loop" -> <<Op("phi_loop", "phi", <<"a", "b", "phi_loop">>),
                          Op("ret_loop", "ret", <<"phi_loop">>)>>
      [] fn = "branch" -> <<Op("phi_branch", "phi", <<"a", "b">>),
                            Op("ret_branch", "ret", <<"phi_branch">>)>>
      [] fn = "ap2" -> <<Op("phi_ap2", "phi", <<"m">>),
                         Op("call_ap2", "call", <<"phi_ap2", "m">>),
                         Op("ret_ap2", "ret", <<"call_ap2">>)>>
      [] fn = "getq" -> <<Op("phi_getq", "phi", <<"p", "r">>),
                          Op("gf_getq", "getfield", <<"phi_getq", "q">>),
                          Op("ret_getq", "ret", <<"gf_getq">>)>>
      [] fn = "noret" -> <<Op("phi_noret", "phi", <<"a">>)>>
      [] fn = "simple" -> <<Op("ret_simple", "ret", <<"1">>)>>
      [] fn = "ptr" -> <<Op("alloca_ptr", "alloca", <<>>),
                         Op("store_ptr", "store", <<"a", "alloca_ptr">>),
                         Op("ret_ptr", "ret", <<"alloca_ptr">>)>>
      [] fn = "slots" -> <<Op("alloca_v", "alloca", <<>>),
                           Op("alloca_w", "alloca", <<>>),
                           Op("load_w", "load", <<"alloca_w">>),
                           Op("store_w", "store", <<"a", "alloca_w">>)>>
      [] fn = "bare" -> <<Op("ret_bare", "ret", <<"None">>)>>
      [] fn = "cb" -> <<Op("cbr_cb", "cbranch", <<"c">>)>>
      [] fn = "cmp" -> <<Op("call_cmp", "call", <<"g", "a">>),
                         Op("cbr_cmp", "cbranch", <<"call_cmp">>)>>

\* isinstance(arg, ir.Const): the one constant of these functions.
IsConst(v) == v = "1"

\* isinstance(arg, (ir.Const, ir.GlobalValue, ir.FuncArg)): the operands of
\* these functions are formal arguments, constants or other operations.
IsLeafValue(fn, v) == v \in Range(FuncArgs(fn)) \/ IsConst(v)

\* isinstance(func, ir.Function): no callee of these functions is a function
\* literal; every callee is a formal argument.
IsIRFunction(fn, v) == FALSE

\* ------------------------------------------------- constraint graph builder

\* self._allocas[op]: the synthetic variable node of an alloca, 'var%d' %
\* len(self._allocas) at its first visit.
alloca_node(fn, id) ==
    LET ops == FuncOps(fn)
        at == CHOOSE i \in 1..Len(ops) : ops[i].id = id
    IN  "var" \o ToString(Cardinality({j \in 1..(at - 1) : ops[j].opcode = "alloca"}))

\* The edges one operation adds to the graph (ConstraintGenerator.op_*).
OpEdges(fn, op) ==
    CASE op.opcode = "ret" ->
           {<<IF op.args[1] = "None" THEN "Void()" ELSE op.args[1], "return">>}
      [] op.opcode = "call" -> {<<op.args[i], op.id>> : i \in 1..Len(op.args)}
      [] op.opcode = "phi" -> {<<op.args[i], op.id>> : i \in 1..Len(op.args)}
      [] op.opcode = "cbranch" -> {<<"Bool()", op.args[1]>>}
      [] op.opcode = "alloca" -> {<<alloca_node(fn, op.id), op.id>>}
      [] op.opcode = "load" -> {<<alloca_node(fn, op.args[1]), op.id>>}
      [] op.opcode = "store" -> {<<op.args[1], alloca_node(fn, op.args[2])>>}
      [] op.opcode = "getfield" -> {<<op.args[1], op.id>>}
      [] OTHER -> {}

\* self.constraints[op] = ...: the operations tagged other than 'flow'.
OpConstraint(op) ==
    CASE op.opcode = "call" -> "call"
      [] op.opcode = "alloca" -> "pointer"
      [] op.opcode = "getfield" -> "attr"
      [] OTHER -> "flow"

\* generate_constraints(func, G): (constraints, metadata).
generate_constraints(fn) ==
    LET ops == Range(FuncOps(fn))
        tagged == {op \in ops : OpConstraint(op) # "flow"}
        noted == {op \in ops : op.opcode \in {"call", "getfield"}}
    IN  [constraints |-> [n \in {op.id : op \in tagged} |->
                            OpConstraint(CHOOSE op \in tagged : op.id = n)],
         metadata |-> [n \in {op.id : op \in noted} |->
                         LET op == CHOOSE o \in noted : o.id = n
                         IN  IF op.opcode = "call"
                             THEN [func |-> Head(op.args), args |-> Tail(op.args)]
                             ELSE [attr |-> op.args[2]]]]

\* The networkx.DiGraph: add_node for every operation and leaf operand,
\* add_edge (which also adds its endpoints) for every constraint.
Graph(fn) ==
    LET ops == Range(FuncOps(fn))
        edges == UNION {OpEdges(fn, op) : op \in ops}
    IN  [nodes |-> {op.id : op \in ops}
                   \cup {v \in UNION {Range(op.args) : op \in ops} : IsLeafValue(fn, v)}
                   \cup {e[1] : e \in edges} \cup {e[2] : e \in edges},
         edges |-> edges]

\* ctx.graph.predecessors(node)
predecessors(G, node) == {e[1] : e \in {x \in G.edges : x[2] = node}}

\* A graph whose nodes have no successors to push.
neighbors_none(G, node) == {}

\* ctx.graph.neighbors(node): the successors of a node
neighbors(G, node) == {e[2] : e \in {x \in G.edges : x[1] = node}}

\* ------------------------------------------------------- object identities

\* The identity of a binding dict: the one of a function's template, the one
\* of the specialization running at a stack depth, the one cached for a key.
TplId(fn) == [k |-> "tpl", f |-> fn, a |-> <<>>, d |-> 0]

RunId(d) == [k |-> "run", f |-> "", a |-> <<>>, d |-> d]

TypId(fn, argtypes) == [k |-> "typ", f |-> fn, a |-> argtypes, d |-> 0]

\* Context(func, context, constraints, graph, metadata); `context` is the
\* identity of the binding dict.
Context(fn, context, constraints, graph, metadata) ==
    [func |-> fn, context |-> context, constraints |-> constraints,
     graph |-> graph, metadata |-> metadata]

\* build_graph(func): the template; its binding dict is created empty.
build_graph(fn) ==
    LET cm == generate_constraints(fn)
    IN  Context(fn, TplId(fn), cm.constraints, Graph(fn), cm.metadata)

\* context = {} in build_graph
build_graph_context(fn) == EmptyDict

\* A template found in a cache handed to infer() that already binds its
\* nodes as the specification lays the template out: 'return' and every
\* node that is no formal argument to the empty set, a constant to the type
\* of its value; formal arguments are bound by seed_context, type literals
\* never.
initial_context(fn) ==
    [n \in {"return"} \cup {x \in Graph(fn).nodes :
                               x \notin Range(FuncArgs(fn)) /\ ~IsTypeNode(x)} |->
       IF IsConst(n) THEN {typeof(n)} ELSE {}]

\* ------------------------------------------------------------------- state

VARIABLES
    ctxs,      \* cache.ctxs: function -> template Context
    typings,   \* cache.typings: (function, argtypes) -> the pair stored
    heap,      \* binding dicts by identity: node -> set of types
    stack,     \* the in-progress infer() calls, outermost first
    last,      \* the outermost infer() call: its key and how it ended
    coldret,   \* per requested key, what its cold infer() call returned
    builds,    \* per function of the program, the build_graph() calls made
    env,       \* the environment of the typing pass: the 'numba.typing.*' keys
    first      \* the cache the session started on, and the outcome of the
               \* first of two solver runs that are compared

vars == <<ctxs, typings, heap, stack, last, coldret, builds, env, first>>

\* The argument types and the calls the session makes.
Mf == Method("f", Int32)

Map == Method("ap", Int32)

\* A comparison passed as a value, and a callee of the same shape that
\* returns Int32.
Gt == Function(Bool, <<Int32>>)

Gi == Function(Int32, <<Int32>>)

\* A callee that stands for two overloads.
Ov == Overloaded(<<Function(Int32, <<Int32>>), Function(Bool, <<Bool>>)>>)

Requests ==
    {<<"f", <<Int32, Int32>>>>, <<"f", <<Bool, Int32>>>>,
     <<"ap", <<Mf>>>>, <<"ap", <<Map>>>>, <<"ap", <<Bool>>>>, <<"ap", <<Ov>>>>,
     <<"loop", <<Int32, Int32>>>>,
     <<"branch", <<Int32, Int32>>>>, <<"branch", <<Bool, Int32>>>>,
     <<"ap2", <<Mf>>>>,
     <<"getq", <<Point3, Point3>>>>, <<"getq", <<Point3, Point>>>>,
     <<"noret", <<Int32>>>>, <<"simple", <<Int32, Int32>>>>, <<"ptr", <<Int32>>>>,
     <<"slots", <<Int32>>>>,
     <<"bare", <<>>>>, <<"cb", <<Bool>>>>, <<"cb", <<Int32>>>>,
     <<"cmp", <<Gt, Int32>>>>, <<"cmp", <<Gi, Int32>>>>}

\* ------------------------------------------------------------------- cache

\* cache.lookup(func, argtypes): the stored pair, or None (the empty set).
lookup(typ, fn, argtypes) ==
    IF <<fn, argtypes>> \in DOMAIN typ THEN {typ[<<fn, argtypes>>]} ELSE {}

\* cache.lookup_ctx(func): the template, or None (the empty set).
lookup_ctx(cs, fn) == IF fn \in DOMAIN cs THEN {cs[fn]} ELSE {}

\* A lookup whose result is never taken as a hit.
IsHit_never(cached) == FALSE

\* if cached:
IsHit(cached) == cached # {}

\* A template that is built on every call, found or not.
NeedsBuild_always(ctx) == TRUE

\* if ctx is None:
NeedsBuild(ctx) == ctx = {}

\* cache.ctxs[func] = ctx
store_ctx(cs, fn, ctx) == Put(cs, fn, ctx)

\* A terminal cache that keeps one specialization per function.
store_typing_by_func(typ, fn, argtypes, signature, ctx) ==
    Put(Drop(typ, {k \in DOMAIN typ : k[1] = fn}), <<fn, argtypes>>,
        [order |-> "signature,ctx", signature |-> signature, ctx |-> ctx])

\* cache.typings[func, argtypes] = signature, ctx
store_typing(typ, fn, argtypes, signature, ctx) ==
    Put(typ, <<fn, argtypes>>,
        [order |-> "signature,ctx", signature |-> signature, ctx |-> ctx])

\* return ctx, signature
cold_result(signature, ctx) ==
    [order |-> "ctx,signature", signature |-> signature, ctx |-> ctx]

\* ctx, signature = infer(...): what the name `signature` is bound to.
second_of(pair) == IF pair.order = "ctx,signature" THEN "Signature" ELSE "Context"

\* ----------------------------------------------------------------- context

\* A copy that is the template's own dict.
copy_context_alias(context, fresh) == context

\* copy_context(context): a new dict holding a copy of every type set; the
\* result is the identity of the dict the specialization works on.
copy_context(context, fresh) == fresh

\* seed_context(ctx, argtypes): zip(ctx.func.args, argtypes)
seed_context(b, fn, argtypes) ==
    LET n == Min(Len(FuncArgs(fn)), Len(argtypes))
        seeded == {FuncArgs(fn)[i] : i \in 1..n}
    IN  [x \in (DOMAIN b) \cup seeded |->
           IF x \in seeded
           THEN {argtypes[CHOOSE i \in 1..n : FuncArgs(fn)[i] = x]}
           ELSE b[x]]

\* The binding dicts some live object still refers to.
Live(cs, typ, st) ==
    {cs[fn].context : fn \in DOMAIN cs}
    \cup {typ[k].ctx.context : k \in DOMAIN typ}
    \cup {st[i].ctx.context : i \in 1..Len(st)}

Collect(h, cs, typ, st) == Drop(h, (DOMAIN h) \ Live(cs, typ, st))

\* ------------------------------------------------------------------ solver

\* C = ctx.constraints.get(node, 'flow')
constraint_of(ctx, node) ==
    IF node \in DOMAIN ctx.constraints THEN ctx.constraints[node] ELSE "flow"

\* A flow that replaces the node's type set by the incoming types.
flow_replace(typeset, incoming) == incoming

\* 'flow': every incoming type is added to the node's type set.
flow(typeset, incoming) == typeset \cup incoming

\* A 'pointer' node that takes the incoming types as they are.
pointer_bare(typeset, incoming) == typeset \cup incoming

\* 'pointer': Pointer(type) of every incoming type is added.
pointer(typeset, incoming) == typeset \cup {Pointer(t) : t \in incoming}

\* An attribute lookup that skips the types without the field.
missing_fields_skip(incoming, name) == {}

\* if attr not in type.fields: the candidate types that lack the field.
missing_fields(incoming, name) == {t \in incoming : name \notin DOMAIN fields(t)}

\* value, result = type.fields[attr]; a field of Function type gives the
\* bound Method(func, self).
attr_result(t, name) ==
    LET fl == fields(t)[name]
    IN  IF fl.result.name = "Function" THEN Method(fl.value, t) ELSE fl.result

\* 'attr': the type of the field in every incoming type is added.
attr(typeset, incoming, name) ==
    typeset \cup {attr_result(t, name) : t \in {u \in incoming : name \in DOMAIN fields(u)}}

\* A visit that always reports a change.
Changed_always(before, after) == TRUE

\* changed |= result not in typeset, over one visit
Changed(before, after) == after # before

\* infer_node(cache, ctx, node) for a 'pointer', 'flow' or 'attr' node, on
\* the binding dict b: KeyError when the node or a predecessor has no
\* binding, InferError when a candidate type lacks the field (`missing`:
\* the types the error may name, by the iteration order of the set).
infer_node(b, ctx, node) ==
    LET C == constraint_of(ctx, node)
        preds == predecessors(ctx.graph, node)
        unbound == (~IsTypeNode(node) /\ node \notin DOMAIN b)
                   \/ (\E u \in preds : u \notin DOMAIN b)
        typeset == IF IsTypeNode(node) THEN {TypeLiterals[node]} ELSE b[node]
        incoming == UNION {b[u] : u \in preds}
        name == IF C = "attr" THEN ctx.metadata[node].attr ELSE ""
        missing == IF C = "attr" THEN missing_fields(incoming, name) ELSE {}
        after == IF C = "pointer" THEN pointer(typeset, incoming)
                 ELSE IF C = "attr" THEN attr(typeset, incoming, name)
                 ELSE flow(typeset, incoming)
    IN  IF unbound
        THEN [err |-> "KeyError", typeset |-> {}, changed |-> FALSE,
              missing |-> {}, attr |-> ""]
        ELSE IF missing # {}
        THEN [err |-> "InferError", typeset |-> {}, changed |-> FALSE,
              missing |-> missing, attr |-> name]
        ELSE [err |-> "", typeset |-> after, changed |-> Changed(typeset, after),
              missing |-> {}, attr |-> name]

\* itertools.product(*arg_typess)
product(sets) ==
    {<<>> \o q : q \in {r \in [1..Len(sets) -> UNION Range(sets)] :
                          \A i \in 1..Len(sets) : r[i] \in sets[i]}}

\* The nodes a 'call' node reads: itself, the callee and the arguments.
call_reads(ctx, node) ==
    {node, ctx.metadata[node].func} \cup Range(ctx.metadata[node].args)

\* The (func_type, arg_types) combinations one visit of a 'call' node goes
\* through: `processed` is empty at the start of every visit.
call_combos(b, ctx, node) ==
    LET md == ctx.metadata[node]
        arg_typess == [i \in 1..Len(md.args) |-> b[md.args[i]]]
    IN  {<<ft, ats>> : ft \in b[md.func], ats \in product(arg_typess)}

\* An infer_call that gives Void for every call.
infer_call_void(fn, func, func_type) ==
    [kind |-> "return", callee |-> "", restype |-> Void, err |-> ""]

\* infer_call(cache, func, func_type, arg_types) up to the call of infer():
\* the read of func_type.name fails on a frozenset (AttributeError), which
\* the isinstance(func_type, frozenset) test further down therefore never
\* sees; a bound method is unwrapped to its function (arg_types unchanged),
\* a callee that is no ir.Function returns func_type.params[0].
infer_call(fn, func, func_type) ==
    IF IsFrozenset(func_type)
    THEN [kind |-> "raise", callee |-> "", restype |-> Void,
          err |-> "AttributeError"]
    ELSE IF func_type.name = "Method"
    THEN [kind |-> "infer", callee |-> func_type.params[1].name,
          restype |-> Void, err |-> ""]
    ELSE IF ~IsIRFunction(fn, func)
    THEN IF Len(func_type.params) = 0
         THEN [kind |-> "raise", callee |-> "", restype |-> Void,
               err |-> "IndexError"]
         ELSE [kind |-> "return", callee |-> "",
               restype |-> func_type.params[1], err |-> ""]
    ELSE [kind |-> "infer", callee |-> func, restype |-> Void, err |-> ""]

\* promote(a, b): the join of two types; in this universe only equal types
\* have one.  The empty set stands for the error it raises.
promote(a, b) == IF a = b THEN {a} ELSE {}

RECURSIVE reduce(_, _)
\* reduce(promote, typeset) from an accumulator, in any iteration order.
reduce(acc, rest) ==
    IF rest = {} THEN {acc}
    ELSE UNION {UNION {reduce(j, rest \ {t}) : j \in promote(acc, t)} : t \in rest}

\* A reduction that gives Void for an empty type set.
reduce_promote_default(typeset) ==
    IF typeset = {} THEN {Void} ELSE UNION {reduce(t, typeset \ {t}) : t \in typeset}

\* restype = reduce(promote, typeset); empty when it raises (an empty
\* typeset has no first element, a pair of types no join).
reduce_promote(typeset) == UNION {reduce(t, typeset \ {t}) : t \in typeset}

\* An exception caught by the caller of the failing infer().
unwind_one(st) == SubSeq(st, 1, Len(st) - 1)

\* An exception propagates through every frame: nothing in infer,
\* infer_graph, infer_node or infer_call catches it.
unwind(st) == <<>>

\* ----------------------------------------------------------------- frames

\* No 'call' node visit is under way.
NoPend == [node |-> "", todo |-> {}, cur |-> {}, changed |-> FALSE]

\* One in-progress infer(cache, func, argtypes): its private Context, the
\* worklist W of infer_graph, the visit of a 'call' node that is under way
\* (the combinations still to resolve, the one a nested infer() is
\* resolving, `changed` so far), the node visits made, whether this call
\* built the template, and the (node, func_type, arg_types) combinations
\* infer_call has resolved in this solver run.
Frame(fn, argtypes, ctx, W, built) ==
    [func |-> fn, argtypes |-> argtypes, ctx |-> ctx, W |-> W,
     pend |-> NoPend, visits |-> 0, built |-> built, seen |-> {}]

\* The environment before the typing pass: nothing inferred, no annotation.
fresh_env == [signature |-> {}, context |-> {}, constraints |-> {}, restype |-> {}]

\* The session starts on a cache that is empty or already holds templates of
\* functions of the program it compiles.
Init ==
    /\ \E prog \in Programs : \E pre \in SUBSET prog :
         /\ ctxs = [fn \in pre |-> build_graph(fn)]
         /\ heap = [id \in {TplId(fn) : fn \in pre} |-> initial_context(id.f)]
         /\ builds = [fn \in prog |-> 0]
    /\ typings = [k \in {} |-> {}]
    /\ stack = <<>>
    /\ last = [kind |-> "idle", key |-> <<"", <<>>>>, value |-> {}, err |-> ""]
    /\ coldret = [r \in Requests |-> {}]
    /\ env = fresh_env
    /\ first = [ctxs |-> ctxs, heap |-> heap, outcome |-> {}]

\* infer() from copy_context to seed_context, on the template tpl that was
\* found or (build) just built, called at stack depth d.
specialize(fn, argtypes, d, build, tpl) ==
    LET cs1 == IF build THEN store_ctx(ctxs, fn, tpl) ELSE ctxs
        h1 == IF build THEN Put(heap, tpl.context, build_graph_context(fn)) ELSE heap
        cid == copy_context(tpl.context, RunId(d))
        h2 == IF cid = tpl.context THEN h1 ELSE Put(h1, cid, h1[tpl.context])
        h3 == [h2 EXCEPT ![cid] = seed_context(@, fn, argtypes)]
    IN  [ctxs |-> cs1, heap |-> h3, built |-> build,
         ctx |-> [tpl EXCEPT !.context = cid]]

\* infer(), from the template lookup to seed_context, for a key that is not
\* cached, called at stack depth d.
cold_start(fn, argtypes, d) ==
    specialize(fn, argtypes, d, NeedsBuild(lookup_ctx(ctxs, fn)),
               IF NeedsBuild(lookup_ctx(ctxs, fn)) THEN build_graph(fn)
               ELSE CHOOSE c \in lookup_ctx(ctxs, fn) : TRUE)

\* An exception leaves infer(): the frames are gone, the outermost caller
\* sees the error and what its message names.
RaiseWith(err, named, typ) ==
    /\ stack' = unwind(stack)
    /\ last' = [kind |-> "raise", key |-> last.key, value |-> named, err |-> err]
    /\ heap' = Collect(heap, ctxs, typ, stack')

Raise(err, typ) == RaiseWith(err, {}, typ)

\* The orders in which the successors of a 'call' node are pushed once the
\* result of its last combination is in.
push_orders(fr, b, result, combo) ==
    Perms(IF fr.pend.todo \ {combo} = {}
             /\ (fr.pend.changed \/ result \notin b[fr.pend.node])
          THEN neighbors(fr.ctx.graph, fr.pend.node) ELSE {})

\* changed |= result not in typeset; typeset.add(result); and, after the
\* last combination, the end of the visit in infer_graph.
deliver(fr, b, result, combo, p) ==
    LET todo == fr.pend.todo \ {combo}
        changed == fr.pend.changed \/ result \notin b[fr.pend.node]
        seen == fr.seen \cup {<<fr.pend.node, combo[1], combo[2]>>}
    IN  [frame |-> IF todo = {}
                   THEN [fr EXCEPT !.pend = NoPend, !.W = p \o @, !.seen = seen]
                   ELSE [fr EXCEPT !.pend = [@ EXCEPT !.todo = todo, !.cur = {},
                                                    !.changed = changed],
                                   !.seen = seen],
         b |-> [b EXCEPT ![fr.pend.node] = @ \cup {result}]]

\* The caller on top of st goes on with the result of infer_call.
Resume(st, h, result, combo) ==
    LET d == Len(st)
        fr == st[d]
        id == fr.ctx.context
    IN  \E p \in push_orders(fr, h[id], result, combo) :
          LET r == deliver(fr, h[id], result, combo, p)
          IN  /\ stack' = [st EXCEPT ![d] = r.frame]
              /\ heap' = [h EXCEPT ![id] = r.b]

\* ----------------------------------------------------------------- actions

\* infer(cache, func, argtypes) by the session, served from cache.typings.
InferHit(req) ==
    /\ stack = <<>>
    /\ req[1] \in DOMAIN builds
    /\ IsHit(lookup(typings, req[1], req[2]))
    /\ last' = [kind |-> "return", key |-> req,
                value |-> lookup(typings, req[1], req[2]), err |-> ""]
    /\ UNCHANGED <<ctxs, typings, heap, stack, builds, coldret, env, first>>

\* infer(cache, func, argtypes) by the session, not cached: up to the start
\* of infer_graph, W = collections.deque(ctx.graph).
InferCold(req) ==
    /\ stack = <<>>
    /\ req[1] \in DOMAIN builds
    /\ ~IsHit(lookup(typings, req[1], req[2]))
    /\ \E c \in {cold_start(req[1], req[2], 1)} :
           /\ c.built => builds[req[1]] < MaxBuilds
           /\ \E W0 \in Perms(c.ctx.graph.nodes) :
                stack' = <<Frame(req[1], req[2], c.ctx, W0, c.built)>>
           /\ ctxs' = c.ctxs
           /\ heap' = c.heap
           /\ builds' = [builds EXCEPT ![req[1]] = @ + (IF c.built THEN 1 ELSE 0)]
    /\ last' = [kind |-> "calling", key |-> req, value |-> {}, err |-> ""]
    /\ UNCHANGED <<typings, coldret, env, first>>

\* One turn of the loop of infer_graph on a 'pointer' or 'flow' node:
\* popleft, infer_node, appendleft of the successors when it changed.
Visit ==
    /\ stack # <<>>
    /\ LET fr == stack[Len(stack)]
           id == fr.ctx.context
       IN  /\ fr.pend.node = ""
           /\ fr.W # <<>>
           /\ fr.visits < MaxVisits
           /\ constraint_of(fr.ctx, Head(fr.W)) # "call"
           /\ LET node == Head(fr.W)
                  r == infer_node(heap[id], fr.ctx, node)
              IN  IF r.err = "InferError"
                  THEN \E t \in r.missing :
                         RaiseWith(r.err, {[type |-> t, attr |-> r.attr]}, typings)
                  ELSE IF r.err # ""
                  THEN Raise(r.err, typings)
                  ELSE /\ \E p \in Perms(IF r.changed
                                        THEN neighbors(fr.ctx.graph, node) ELSE {}) :
                            stack' = [stack EXCEPT ![Len(stack)] =
                                        [fr EXCEPT !.W = p \o Tail(fr.W),
                                                   !.visits = @ + 1]]
                       /\ heap' = IF IsTypeNode(node) THEN heap
                                  ELSE [heap EXCEPT ![id][node] = r.typeset]
                       /\ UNCHANGED last
    /\ UNCHANGED <<ctxs, typings, coldret, builds, env, first>>

\* One turn of the loop of infer_graph on a 'call' node, up to the first
\* infer_call: the combinations of the callee's and the arguments' types.
VisitCall ==
    /\ stack # <<>>
    /\ LET fr == stack[Len(stack)]
           id == fr.ctx.context
       IN  /\ fr.pend.node = ""
           /\ fr.W # <<>>
           /\ fr.visits < MaxVisits
           /\ constraint_of(fr.ctx, Head(fr.W)) = "call"
           /\ LET node == Head(fr.W)
              IN  IF ~(call_reads(fr.ctx, node) \subseteq DOMAIN heap[id])
                  THEN Raise("KeyError", typings)
                  ELSE /\ stack' = [stack EXCEPT ![Len(stack)] =
                              [fr EXCEPT !.W = Tail(fr.W), !.visits = @ + 1,
                                 !.pend = IF call_combos(heap[id], fr.ctx, node) = {}
                                          THEN NoPend
                                          ELSE [node |-> node,
                                                todo |-> call_combos(heap[id], fr.ctx, node),
                                                cur |-> {}, changed |-> FALSE]]]
                       /\ UNCHANGED <<heap, last>>
    /\ UNCHANGED <<ctxs, typings, coldret, builds, env, first>>

\* infer_call for one combination of the 'call' node under visit: it
\* returns a type, raises, or enters infer() for the callee.
InferCall ==
    /\ stack # <<>>
    /\ LET d == Len(stack)
           fr == stack[d]
       IN  /\ fr.pend.node # ""
           /\ fr.pend.cur = {}
           /\ \E combo \in fr.pend.todo :
                LET r == infer_call(fr.func, fr.ctx.metadata[fr.pend.node].func, combo[1])
                    cached == lookup(typings, r.callee, combo[2])
                IN  IF r.kind = "raise"
                    THEN Raise(r.err, typings) /\ UNCHANGED <<ctxs, builds>>
                    ELSE IF r.kind = "return"
                    THEN Resume(stack, heap, r.restype, combo)
                         /\ UNCHANGED <<ctxs, builds, last>>
                    ELSE IF IsHit(cached)
                    THEN LET pair == CHOOSE c \in cached : TRUE
                         IN  IF second_of(pair) = "Signature"
                             THEN Resume(stack, heap, pair.signature.params[1], combo)
                                  /\ UNCHANGED <<ctxs, builds, last>>
                             ELSE Raise("AttributeError", typings)
                                  /\ UNCHANGED <<ctxs, builds>>
                    ELSE \E c \in {cold_start(r.callee, combo[2], d + 1)} :
                             /\ d < MaxDepth
                             /\ c.built => builds[r.callee] < MaxBuilds
                             /\ \E W0 \in Perms(c.ctx.graph.nodes) :
                                  stack' = [stack EXCEPT ![d].pend.cur = {combo}]
                                           \o <<Frame(r.callee, combo[2], c.ctx, W0, c.built)>>
                             /\ ctxs' = c.ctxs
                             /\ heap' = c.heap
                             /\ builds' = [builds EXCEPT ![r.callee] =
                                             @ + (IF c.built THEN 1 ELSE 0)]
                             /\ UNCHANGED last
    /\ UNCHANGED <<typings, coldret, env, first>>

\* The end of infer(): the worklist is empty; the return node's type set is
\* reduced, the signature cached and the pair returned to the session or to
\* the infer_call that asked.
InferReturn ==
    /\ stack # <<>>
    /\ LET d == Len(stack)
           fr == stack[d]
           id == fr.ctx.context
           b == heap[id]
       IN  /\ fr.pend.node = ""
           /\ fr.W = <<>>
           /\ IF "return" \notin DOMAIN b
              THEN Raise("KeyError", typings) /\ UNCHANGED <<typings, coldret>>
              ELSE IF reduce_promote(b["return"]) = {}
              THEN Raise("TypeError", typings) /\ UNCHANGED <<typings, coldret>>
              ELSE \E restype \in reduce_promote(b["return"]) :
                     LET signature == Function(restype, fr.argtypes)
                         newid == IF id.k = "run" THEN TypId(fr.func, fr.argtypes) ELSE id
                         ctx == [fr.ctx EXCEPT !.context = newid]
                         h == IF newid = id THEN heap ELSE Put(Drop(heap, {id}), newid, b)
                         typ == store_typing(typings, fr.func, fr.argtypes, signature, ctx)
                         pair == cold_result(signature, ctx)
                     IN  /\ typings' = typ
                         /\ IF d = 1
                            THEN /\ stack' = <<>>
                                 /\ heap' = Collect(h, ctxs, typ, <<>>)
                                 /\ last' = [kind |-> "return", key |-> last.key,
                                             value |-> {pair}, err |-> ""]
                                 /\ coldret' = [coldret EXCEPT ![last.key] = {pair}]
                            ELSE IF second_of(pair) = "Signature"
                            THEN /\ Resume(SubSeq(stack, 1, d - 1), h,
                                           pair.signature.params[1],
                                           CHOOSE c \in stack[d - 1].pend.cur : TRUE)
                                 /\ UNCHANGED <<last, coldret>>
                            ELSE Raise("AttributeError", typ) /\ UNCHANGED coldret
    /\ UNCHANGED <<ctxs, builds, env, first>>

\* The tuple infer() returned, as the caller unpacks it.
as_tuple(pair) ==
    IF pair.order = "ctx,signature" THEN <<pair.ctx, pair.signature>>
    ELSE <<pair.signature, pair.ctx>>

\* run(func, env), from the return of its infer() call on:
\* signature, context, constraints = infer(cache, func, argtypes), then the
\* three writes to env.
Run ==
    /\ stack = <<>>
    /\ last.kind = "return"
    /\ LET t == as_tuple(CHOOSE p \in last.value : TRUE)
       IN  IF Len(t) # 3
           THEN /\ last' = [kind |-> "run", key |-> last.key, value |-> {},
                            err |-> "ValueError"]
                /\ UNCHANGED env
           ELSE /\ last' = [kind |-> "run", key |-> last.key, value |-> {}, err |-> ""]
                /\ env' = [env EXCEPT !.signature = {t[1]}, !.context = {t[2]},
                                      !.constraints = {t[3]}]
    /\ UNCHANGED <<ctxs, typings, heap, stack, coldret, builds, first>>

Next ==
    \/ \E req \in Requests : InferHit(req)
    \/ \E req \in Requests : InferCold(req)
    \/ Visit
    \/ VisitCall
    \/ InferCall
    \/ InferReturn
    \/ Run

Spec == Init /\ [][Next]_vars

\* ------------------------------------------------ two orders of one run

\* How the outermost infer() call ended: normally or with which error, the
\* signature, and the type set of every node of its Context.
Outcome ==
    [kind |-> last.kind, err |-> last.err,
     signature |-> IF last.kind = "return" THEN {p.signature : p \in last.value} ELSE {},
     types |-> IF last.kind = "return"
               THEN {heap[p.ctx.context] : p \in last.value} ELSE {}]

\* infer(cache, func, argtypes) by the session on the cache it started on:
\* the first run of a key, and the second run of the same key.
OrderRun(req) ==
    /\ last.kind = "idle" \/ (last.kind = "again" /\ req = last.key)
    /\ InferCold(req)

\* The first run has ended: its outcome is kept and the same call is set up
\* again on the same Context and cache, those of the start.
Rewind ==
    /\ stack = <<>>
    /\ last.kind \in {"return", "raise"}
    /\ first.outcome = {}
    /\ first' = [first EXCEPT !.outcome = {Outcome}]
    /\ ctxs' = first.ctxs
    /\ heap' = first.heap
    /\ typings' = EmptyDict
    /\ builds' = [fn \in DOMAIN builds |-> 0]
    /\ coldret' = [r \in Requests |-> {}]
    /\ last' = [kind |-> "again", key |-> last.key, value |-> {}, err |-> ""]
    /\ UNCHANGED <<stack, env>>

NextOrder ==
    \/ \E req \in Requests : OrderRun(req)
    \/ Visit
    \/ VisitCall
    \/ InferCall
    \/ InferReturn
    \/ Rewind

SpecOrder == Init /\ [][NextOrder]_vars

\* --------------------------------------------------------- type resolution

\* A type variable, and the return types resolve_restype is tried on.
TypeVar == Type("TypeVar", <<>>)

ResTypes == {Int32, Bool, TypeVar, Pointer(Int32), Pointer(Bool), Pointer(TypeVar)}

\* unify(a, b): the unified type; the empty set stands for UnificationError.
\* Equal types unify, a type variable unifies with anything, pointers
\* unify when their base types do.
unify(a, b) ==
    IF a = b THEN {a}
    ELSE IF a = TypeVar THEN {b}
    ELSE IF b = TypeVar THEN {a}
    ELSE IF a.name = "Pointer" /\ b.name = "Pointer"
    THEN IF a.params[1] = TypeVar THEN {b}
         ELSE IF b.params[1] = TypeVar THEN {a}
         ELSE {}
    ELSE {}

\* signature.restype
restype_of(signature) == signature.params[1]

\* An annotation that is always replaced by the inferred type.
resolve_restype_overwrite(e) ==
    [err |-> "", named |-> {},
     env |-> [e EXCEPT !.restype = {restype_of(CHOOSE g \in e.signature : TRUE)}]]

\* resolve_restype(func, env) on the environment e: the error raised, what
\* its message names, and the environment afterwards.
resolve_restype(e) ==
    LET context == CHOOSE c \in e.context : TRUE
        signature == CHOOSE g \in e.signature : TRUE
        inferred_restype == restype_of(signature)
        unified == UNION {unify(inferred_restype, r) : r \in e.restype}
    IN  IF "return" \notin DOMAIN context
        THEN [err |-> "KeyError", named |-> {}, env |-> e]
        ELSE IF e.restype = {}
        THEN [err |-> "", named |-> {}, env |-> [e EXCEPT !.restype = {inferred_restype}]]
        ELSE IF e.restype # {inferred_restype}
        THEN IF unified = {}
             THEN [err |-> "TypeError",
                   named |-> {[restype |-> e.restype, inferred |-> inferred_restype,
                               cause |-> "UnificationError"]},
                   env |-> e]
             ELSE [err |-> "", named |-> {}, env |-> [e EXCEPT !.restype = unified]]
        ELSE [err |-> "", named |-> {}, env |-> [e EXCEPT !.restype = e.restype]]

\* The environments resolve_restype is given: an inferred signature, the
\* populated context (with or without a 'return' binding) and an annotated
\* return type or None.
ResolveEnvs ==
    {[signature |-> {Function(r, <<Int32>>)}, context |-> {c}, constraints |-> {},
      restype |-> a] :
       r \in ResTypes,
       c \in {EmptyDict, [n \in {"return"} |-> {Int32}]},
       a \in {{}} \cup {{t} : t \in ResTypes}}

InitResolve ==
    /\ env \in ResolveEnvs
    /\ ctxs = EmptyDict
    /\ typings = EmptyDict
    /\ heap = EmptyDict
    /\ stack = <<>>
    /\ last = [kind |-> "idle", key |-> <<"", <<>>>>, value |-> {}, err |-> ""]
    /\ coldret = [r \in Requests |-> {}]
    /\ builds = EmptyDict
    /\ first = [ctxs |-> EmptyDict, heap |-> EmptyDict, outcome |-> {}]

\* resolve_restype(func, env), once.
ResolveRestype ==
    /\ last.kind = "idle"
    /\ LET r == resolve_restype(env)
       IN  /\ env' = r.env
           /\ last' = [kind |-> IF r.err = "" THEN "resolved" ELSE "raise",
                       key |-> last.key, value |-> r.named, err |-> r.err]
    /\ UNCHANGED <<ctxs, typings, heap, stack, coldret, builds, first>>

NextResolve == ResolveRestype

SpecResolve == InitResolve /\ [][NextResolve]_vars

\* ------------------------------------------------------------------ claims

\* The key of an in-progress infer() call.
KeyOf(fr) == <<fr.func, fr.argtypes>>

\* The types the session's argument tuples are made of.
AllTypes == UNION {Range(r[2]) : r \in Requests}

\* Every node is visited once, and once more for each change of one of its
\* predecessors; a type set changes at most once per type.
VisitBound(fn) ==
    Cardinality(Graph(fn).nodes) + Cardinality(Graph(fn).edges) * Cardinality(AllTypes)

C4_Monotone ==
    [][\A id \in (DOMAIN heap) \cap (DOMAIN heap') :
         \A n \in DOMAIN heap[id] :
           n \in DOMAIN heap'[id] /\ heap[id][n] \subseteq heap'[id][n]]_vars

\* C4 witness: a visit has added a type to the phi node of loop and the
\* run goes on.
C4_Witness ==
    /\ Len(stack) = 1
    /\ stack[1].func = "loop"
    /\ stack[1].W # <<>>
    /\ "phi_loop" \in DOMAIN heap[stack[1].ctx.context]
    /\ heap[stack[1].ctx.context]["phi_loop"] = {Int32}

\* C5: when infer fails, at any nesting depth, no frame is left (the
\* failure reaches the outermost caller) and the terminal cache has no
\* entry for the failing key nor for any key that was in progress.
C5_FailureCachesNothing ==
    [][(last.kind = "calling" /\ last'.kind = "raise") =>
         /\ stack' = <<>>
         /\ \A i \in 1..Len(stack) : KeyOf(stack[i]) \notin DOMAIN typings'
         /\ last'.key \notin DOMAIN typings']_vars

\* C5 witness: infer(ap, (Method(f),)) has failed inside the nested infer of
\* its callee f: ap's own nodes were all bound, f's template was not.
C5_Witness ==
    /\ last.kind = "raise"
    /\ last.key = <<"ap", <<Mf>>>>
    /\ last.err = "KeyError"
    /\ "ap" \in DOMAIN ctxs
    /\ heap[ctxs["ap"].context] # EmptyDict

C8_PrivateBindings ==
    [][/\ \A id \in DOMAIN heap :
            id.k # "run" => (id \in DOMAIN heap' /\ heap'[id] = heap[id])
       /\ \A fn \in DOMAIN ctxs :
            /\ fn \in DOMAIN ctxs'
            /\ ctxs'[fn].graph = ctxs[fn].graph
            /\ ctxs'[fn].constraints = ctxs[fn].constraints
            /\ ctxs'[fn].metadata = ctxs[fn].metadata
       /\ \A i \in 1..Len(stack') : stack'[i].ctx.context = RunId(i)]_vars

\* C8 witness: a run of f has written its bindings while another
\* specialization of f is cached.
C8_Witness ==
    /\ Len(stack) = 1
    /\ KeyOf(stack[1]) = <<"f", <<Bool, Int32>>>>
    /\ <<"f", <<Int32, Int32>>>> \in DOMAIN typings
    /\ "return" \in DOMAIN heap[stack[1].ctx.context]
    /\ heap[stack[1].ctx.context]["return"] = {Bool}

\* C9: both cache mappings are append-only: an entry of cache.ctxs or of
\* cache.typings is never removed and never replaced by another value.
C9_AppendOnly ==
    [][/\ \A fn \in DOMAIN ctxs : fn \in DOMAIN ctxs' /\ ctxs'[fn] = ctxs[fn]
       /\ \A k \in DOMAIN typings : k \in DOMAIN typings' /\ typings'[k] = typings[k]]_vars

\* C9 witness: a second specialization of f was cached after the first, a
\* template was built, and a later call failed.
C9_Witness ==
    /\ {<<"f", <<Int32, Int32>>>>, <<"f", <<Bool, Int32>>>>} \subseteq DOMAIN typings
    /\ "ap" \in DOMAIN builds
    /\ builds["ap"] = 1
    /\ last.kind = "raise"

\* C10: infer of the straight-line f(a, b) = a with (Int32, Int32) ends by
\* returning the signature Function(Int32, Int32, Int32).
C10_StraightLine ==
    (last.key = <<"f", <<Int32, Int32>>>> /\ last.kind \in {"return", "raise"}) =>
      /\ last.kind = "return"
      /\ \A p \in last.value : p.signature = Function(Int32, <<Int32, Int32>>)

\* The solver run of a frame has ended: the worklist is empty and no 'call'
\* node is under visit.
AtFixpoint(fr) == fr.W = <<>> /\ fr.pend.node = ""

\* The phi operations of a function.
PhiOps(fn) == {op \in Range(FuncOps(fn)) : op.opcode = "phi"}

\* The outermost infer() call of a key has ended.
Ended(key) == last.key = key /\ last.kind \in {"return", "raise"}

\* The outermost infer() call has returned a pair with this signature.
Returned(signature) ==
    last.kind = "return" /\ \A p \in last.value : p.signature = signature

\* C11: at the fixpoint the type set of a phi node is the union of the type
\* sets of its incoming values, and infer of branch(a, b) = phi(a, b) with
\* (Int32, Int32) ends by returning Function(Int32, Int32, Int32).
C11_PhiIsUnion ==
    /\ \A i \in 1..Len(stack) :
         AtFixpoint(stack[i]) =>
           \A op \in PhiOps(stack[i].func) :
             /\ op.id \in DOMAIN heap[stack[i].ctx.context]
             /\ heap[stack[i].ctx.context][op.id]
                  = UNION {heap[stack[i].ctx.context][v] : v \in Range(op.args)}
    /\ Ended(<<"branch", <<Int32, Int32>>>>) => Returned(Function(Int32, <<Int32, Int32>>))

\* C12: infer of loop(a, b), whose graph has the flow cycle phi_loop ->
\* phi_loop and whose accumulator only receives Int32, ends by returning
\* Function(Int32, Int32, Int32).
C12_LoopConverges ==
    Ended(<<"loop", <<Int32, Int32>>>>) => Returned(Function(Int32, <<Int32, Int32>>))

\* The base-object types an 'attr' node is about to read: the frame on top of
\* the stack is about to visit an 'attr' node whose binding and whose
\* predecessor's binding exist.
AttrBase(st, h) ==
    IF st = <<>> THEN {}
    ELSE LET fr == st[Len(st)]
             b == h[fr.ctx.context]
         IN  IF fr.pend.node = "" /\ fr.W # <<>>
                /\ constraint_of(fr.ctx, Head(fr.W)) = "attr"
                /\ Head(fr.W) \in DOMAIN b
                /\ predecessors(fr.ctx.graph, Head(fr.W)) \subseteq DOMAIN b
             THEN UNION {b[u] : u \in predecessors(fr.ctx.graph, Head(fr.W))}
             ELSE {}

\* The field an 'attr' node on top of the worklist looks up.
AttrName(st) == st[Len(st)].ctx.metadata[Head(st[Len(st)].W)].attr

EmptyReturn(st, h) ==
    /\ st # <<>>
    /\ AtFixpoint(st[Len(st)])
    /\ "return" \in DOMAIN h[st[Len(st)].ctx.context]
    /\ h[st[Len(st)].ctx.context]["return"] = {}

ArgIndex(fn, n) == CHOOSE k \in 1..Len(FuncArgs(fn)) : FuncArgs(fn)[k] = n

\* C15: when the solver starts on a freshly specialized Context every node
\* of the graph that is no type literal is bound: a formal argument to the
\* singleton of its argument type, a constant to its type, every other node
\* and the return node to the empty set; and no infer call ever fails on
\* the read of a binding that does not exist (KeyError).
C15_AllNodesBound ==
    /\ \A i \in 1..Len(stack) :
         (stack[i].visits = 0 /\ stack[i].pend.node = "") =>
           \A n \in (stack[i].ctx.graph.nodes \cup {"return"}) :
             \/ IsTypeNode(n)
             \/ /\ n \in DOMAIN heap[stack[i].ctx.context]
                /\ heap[stack[i].ctx.context][n] =
                     IF n \in Range(FuncArgs(stack[i].func))
                     THEN {stack[i].argtypes[ArgIndex(stack[i].func, n)]}
                     ELSE IF IsConst(n) THEN {typeof(n)} ELSE {}
    /\ last.kind = "raise" => last.err # "KeyError"

\* C16: every constant node is seeded with the singleton of the type of its
\* value when the solver starts, and infer of simple(a, b) = 1 with
\* (Int32, Int32) ends by returning Function(Int32, Int32, Int32).
C16_ConstantSeeded ==
    /\ \A i \in 1..Len(stack) :
         (stack[i].visits = 0 /\ stack[i].pend.node = "") =>
           \A n \in {x \in stack[i].ctx.graph.nodes : IsConst(x)} :
             /\ n \in DOMAIN heap[stack[i].ctx.context]
             /\ heap[stack[i].ctx.context][n] = {typeof(n)}
    /\ Ended(<<"simple", <<Int32, Int32>>>>) => Returned(Function(Int32, <<Int32, Int32>>))

Inferred(e) == restype_of(CHOOSE g \in e.signature : TRUE)

\* C18: resolve_restype on an environment whose context binds 'return':
\* without annotation the return type becomes the inferred one; an
\* annotation equal to the inferred type is kept; a different one that
\* unifies is replaced by the unified type; a different one that does not
\* unify makes the operation fail with a TypeError that carries both types
\* and the unification failure, and the environment is left unchanged.
C18_ResolveRestype ==
    [][(last.kind = "idle" /\ last'.kind # "idle"
        /\ \E c \in env.context : "return" \in DOMAIN c) =>
         IF env.restype = {}
         THEN last'.kind = "resolved" /\ env' = [env EXCEPT !.restype = {Inferred(env)}]
         ELSE IF env.restype = {Inferred(env)}
         THEN last'.kind = "resolved" /\ env' = env
         ELSE IF \E a \in env.restype : unify(Inferred(env), a) # {}
         THEN /\ last'.kind = "resolved"
              /\ \E a \in env.restype :
                   env' = [env EXCEPT !.restype = unify(Inferred(env), a)]
         ELSE /\ last'.kind = "raise"
              /\ last'.err = "TypeError"
              /\ last'.value = {[restype |-> env.restype, inferred |-> Inferred(env),
                                 cause |-> "UnificationError"]}
              /\ env' = env]_vars

\* C18 witness: the annotation Bool could not be unified with the inferred
\* Pointer(Int32); the environment still holds the annotation.
C18_Witness ==
    /\ last.kind = "raise"
    /\ last.err = "TypeError"
    /\ env.restype = {Bool}
    /\ env.signature = {Function(Pointer(Int32), <<Int32>>)}

OverloadCall(st) ==
    /\ st # <<>>
    /\ st[Len(st)].pend.node # ""
    /\ st[Len(st)].pend.cur = {}
    /\ st[Len(st)].pend.todo # {}
    /\ \A combo \in st[Len(st)].pend.todo : IsFrozenset(combo[1])

AllocaOps(fn) == {op \in Range(FuncOps(fn)) : op.opcode = "alloca"}

StoresTo(fn, slot) ==
    {op \in Range(FuncOps(fn)) : op.opcode = "store" /\ op.args[2] = slot}

LoadsFrom(fn, slot) ==
    {op \in Range(FuncOps(fn)) : op.opcode = "load" /\ op.args[1] = slot}

TypeNodes(fr) == {n \in fr.ctx.graph.nodes : IsTypeNode(n)}

\* C25: a Type literal that is a graph node has no predecessors, and at the
\* fixpoint every successor of it holds the literal's type; infer of
\* bare(), whose only return has no value, ends by returning Function(Void).
C25_TypeLiteral ==
    /\ \A i \in 1..Len(stack) :
         \A n \in TypeNodes(stack[i]) :
           /\ predecessors(stack[i].ctx.graph, n) = {}
           /\ AtFixpoint(stack[i]) =>
                \A v \in neighbors(stack[i].ctx.graph, n) :
                  /\ v \in DOMAIN heap[stack[i].ctx.context]
                  /\ TypeLiterals[n] \in heap[stack[i].ctx.context][v]
    /\ Ended(<<"bare", <<>>>>) => Returned(Function(Void, <<>>))

\* The conditional branches of a function whose condition is the result of
\* a call operation.
CallBranches(fn) ==
    {op \in Range(FuncOps(fn)) :
       /\ op.opcode = "cbranch"
       /\ \E c \in Range(FuncOps(fn)) : c.opcode = "call" /\ c.id = op.args[1]}

SeededArgs(fr) == 1..Min(Len(FuncArgs(fr.func)), Len(fr.argtypes))

\* C27: throughout a solver run the type set of every seeded formal
\* argument node is the singleton of its argument type: no visit, not even
\* that of an argument a conditional branch uses as its condition (an edge
\* from the Bool literal into the argument node), adds a type to it.
C27_ArgumentsKeepSeed ==
    \A i \in 1..Len(stack) :
      \A k \in SeededArgs(stack[i]) :
        /\ FuncArgs(stack[i].func)[k] \in DOMAIN heap[stack[i].ctx.context]
        /\ heap[stack[i].ctx.context][FuncArgs(stack[i].func)[k]] = {stack[i].argtypes[k]}

\* C27 witness: in the run of cb(c) = cbranch c with Int32, whose graph has
\* the edge from the Bool literal into c, the other nodes have been visited,
\* c is next, and c holds Int32 only.
C27_Witness ==
    /\ Len(stack) = 1
    /\ stack[1].func = "cb"
    /\ stack[1].argtypes = <<Int32>>
    /\ <<"Bool()", "c">> \in stack[1].ctx.graph.edges
    /\ stack[1].visits = 2
    /\ stack[1].W = <<"c">>
    /\ heap[stack[1].ctx.context]["c"] = {Int32}

====
